---- MODULE Spec2Model ----
(***************************************************************************)
(* Cron-Scheduler: the scheduling and execution core.                      *)
(*                                                                         *)
(* The model follows the coroutines of app/scheduler.py, app/executor.py   *)
(* and app/routers/schedules.py from one suspension point (await) to the   *)
(* next: every action is the code that runs, without yielding, when one    *)
(* awaited Store, HTTP or sleep operation returns.                         *)
(*                                                                         *)
(* The Store is modelled as the committed rows (sched, runs).  Each        *)
(* session (one per fire handler, API request, sweep, recovery) holds its  *)
(* ORM objects privately: a flush is seen by that session only, a commit   *)
(* publishes the session's changes at once, and closing a session or       *)
(* killing the process discards what was not committed.  An ORM UPDATE     *)
(* writes the columns whose value differs from the value loaded.           *)
(*                                                                         *)
(* Time is a clock of ticks, TicksPerSecond ticks to the second.           *)
(* now_ist() is the clock shifted by the IST offset, utcnow() is the clock *)
(* itself: both are stored as naive datetimes.                             *)
(***************************************************************************)
EXTENDS Integers, Sequences, FiniteSets, TLC

----------------------------------------------------------------------------
(* Bounds of the model *)

MaxTime == 2
TicksPerSecond == 2
MaxRuns == 2
MaxCrashes == 1
MaxApiCalls == 3
MaxSweeps == 1

(* Program constants *)

IstOffsetSeconds == 19800

(* IntervalTrigger(seconds=60) of the window expiration checker *)
SweepPeriodSeconds == 60

max_retries == 3

retry_delay_seconds == 1

(* max_delay of calculate_backoff_delay, in seconds *)
MaxDelaySeconds == 30

Null == -1

ScheduleIds == {1}

(* Settings of retry_delay_seconds: the default, and one whose second      *)
(* backoff exceeds max_delay                                                *)
BaseDelayChoices == {retry_delay_seconds, 16}

(* The Target that every schedule belongs to; it exists from the start. *)
TargetId == 0
Handlers == {1, 2}

(* Request inputs of the control API *)
IntervalChoices == {1}
MaxRunsChoices == {Null, 1}
DurationChoices == {Null, 1}

ScheduleType == {"INTERVAL", "CRON"}

(* cron_expression is None *)
NoCron == ""

CronChoices == {NoCron, "* * * * *"}

----------------------------------------------------------------------------
(* Enumerations of app/models.py *)

ScheduleStatus == {"ACTIVE", "PAUSED", "EXPIRED", "DELETED"}
RunStatus == {"PENDING", "RUNNING", "SUCCESS", "FAILED", "TIMEOUT"}
ErrorType == {"NONE", "TIMEOUT", "DNS", "CONNECTION", "SSL", "CLIENT_ERROR",
              "SERVER_ERROR", "UNKNOWN"}

TerminalRunStatus == {"SUCCESS", "FAILED", "TIMEOUT"}

(* What client.request(...) can do: return a response with a status code,  *)
(* or raise.  The exceptions are named by the branch of classify_error     *)
(* they take.                                                              *)
StatusCodes == {200, 404, 503, 600}

Exceptions == {"TimeoutException", "ConnectError dns", "ConnectError ssl",
               "ConnectError", "Exception"}

Response(code) == [status_code |-> code, exception |-> "none"]

Raised(exc) == [status_code |-> Null, exception |-> exc]

Outcomes ==
    {Response(code) : code \in StatusCodes} \cup {Raised(exc) : exc \in Exceptions}

(* The outcomes that end a Run at the attempt they are seen at: what a     *)
(* target that answers every request with a 2xx/3xx or a 4xx produces.     *)
FinalOutcomes == {Response(200), Response(404)}

----------------------------------------------------------------------------
VARIABLES
    now,        \* the wall clock, in ticks
    started,    \* SchedulerEngine._started: the process is up and recovered
    crashes,    \* number of process crashes so far
    jobs,       \* schedule ids with a job "schedule_<id>" registered
    running,    \* SchedulerEngine._running_jobs
    sched,      \* committed Schedule rows, by id
    runs,       \* committed Run rows (with their Attempts), by run id
    nextRun,    \* next Run id to hand out
    hs,         \* the invocations of _execute_schedule, by handler slot
    api,        \* the control API request in progress
    apiCalls,   \* number of API requests made
    sweep,      \* the invocation of _check_expired_windows in progress
    sweeps,     \* number of sweeps made
    capChanged, \* history: schedule ids whose max_runs an update has changed
    lateWindow, \* history: schedule ids whose expires_at was stored after it
                \* had passed
    deleted,    \* history: ids of the schedules, and of the target, whose
                \* delete request was committed
    base_retry_delay  \* HttpExecutor.base_retry_delay, in seconds

vars == <<now, started, crashes, jobs, running, sched, runs, nextRun, hs,
          api, apiCalls, sweep, sweeps, capChanged, lateWindow, deleted,
          base_retry_delay>>

----------------------------------------------------------------------------
(* Clocks *)

utcnow == now

now_ist == now + IstOffsetSeconds * TicksPerSecond

Seconds(n) == n * TicksPerSecond

----------------------------------------------------------------------------
(* ORM objects: the row as loaded and the row as it stands in memory *)

NoRow == [status |-> "NONE"]

NoRun == [status |-> "NONE"]

NoAttempt == [attempt_number |-> 0]

Obj(row) == [loaded |-> row, cur |-> row]

NoObj == Obj(NoRow)

(* The UPDATE a flush emits: the columns changed since the load *)
ApplyChanges(row, obj) ==
    [f \in DOMAIN row |->
        IF obj.cur[f] # obj.loaded[f] THEN obj.cur[f] ELSE row[f]]

Set(obj, changes) ==
    [obj EXCEPT !.cur =
        [f \in DOMAIN obj.cur |->
            IF f \in DOMAIN changes THEN changes[f] ELSE obj.cur[f]]]

----------------------------------------------------------------------------
(* Pure helpers of the scheduler *)

WindowExpired(s) == s.expires_at # Null /\ now_ist >= s.expires_at

(* Variant: the cap compared with > instead of >= *)
MaxRunsExceeded(s) == s.max_runs # Null /\ s.max_runs # 0 /\ s.run_count > s.max_runs

MaxRunsReached(s) == s.max_runs # Null /\ s.max_runs # 0 /\ s.run_count >= s.max_runs

(* _calculate_next_run raises: timedelta(seconds=None) for an INTERVAL      *)
(* schedule without interval_seconds, croniter(None, now) for a CRON one    *)
(* without cron_expression.                                                 *)
NextRunRaises(s) ==
    \/ s.schedule_type = "INTERVAL" /\ s.interval_seconds = Null
    \/ s.schedule_type = "CRON" /\ s.cron_expression = NoCron

(* _calculate_next_run; the cron expressions of CronChoices fire at every   *)
(* minute boundary, so croniter's get_next is the next one after now.       *)
_calculate_next_run(s) ==
    IF s.schedule_type = "INTERVAL"
    THEN now_ist + Seconds(s.interval_seconds)
    ELSE ((now_ist \div Seconds(60)) + 1) * Seconds(60)

(* Variant: the key formatted from the full timestamp, not floored to the second *)
IdempotencyKeyPerTick(sid, t) == <<sid, t>>

IdempotencyKey(sid, t) == <<sid, t \div TicksPerSecond>>

(* Variant: the lookup and the unique index never find the key *)
KeyNeverTaken(key) == FALSE

KeyTaken(key) == \E r \in DOMAIN runs : runs[r].idempotency_key = key

(* Variant: one token for all schedules *)
TokenHeldByAny(sid) == running # {}

(* Variant: the handler does not look at _running_jobs *)
TokenNeverHeld(sid) == FALSE

TokenHeld(sid) == sid \in running

----------------------------------------------------------------------------
(* Error classification: app/executor.py *)

classify_error(exc) ==
    IF exc = "TimeoutException"
    THEN [error_type |-> "TIMEOUT", error_message |-> "Request timed out"]
    ELSE IF exc = "ConnectError dns"
    THEN [error_type |-> "DNS", error_message |-> "DNS resolution failed"]
    ELSE IF exc = "ConnectError ssl"
    THEN [error_type |-> "SSL", error_message |-> "SSL/TLS error"]
    ELSE IF exc = "ConnectError"
    THEN [error_type |-> "CONNECTION", error_message |-> "Connection failed"]
    ELSE [error_type |-> "UNKNOWN", error_message |-> "Unknown error"]

classify_status_code(status_code) ==
    IF 200 <= status_code /\ status_code < 400 THEN "NONE"
    ELSE IF 400 <= status_code /\ status_code < 500 THEN "CLIENT_ERROR"
    ELSE IF 500 <= status_code /\ status_code < 600 THEN "SERVER_ERROR"
    ELSE "UNKNOWN"

(* f"HTTP {response.status_code}" *)
HttpMessage(status_code) ==
    IF status_code = 404 THEN "HTTP 404"
    ELSE IF status_code = 503 THEN "HTTP 503"
    ELSE IF status_code = 600 THEN "HTTP 600"
    ELSE "HTTP"

(* What _execute_attempt records of the outcome of its request *)
Recorded(out) ==
    IF out.exception = "none"
    THEN [status_code |-> out.status_code,
          error_type |-> classify_status_code(out.status_code),
          error_message |-> IF 200 <= out.status_code /\ out.status_code < 400
                            THEN ""
                            ELSE HttpMessage(out.status_code)]
    ELSE [status_code |-> Null,
          error_type |-> classify_error(out.exception).error_type,
          error_message |-> classify_error(out.exception).error_message]

----------------------------------------------------------------------------
(* Records *)

IdleHandler ==
    [pc |-> "idle", sid |-> 0, s |-> NoObj, run |-> NoRun, att |-> NoAttempt,
     backoff_delay |-> 0]

IdleApi == [pc |-> "idle", op |-> "none", sid |-> 0, s |-> NoObj, runs |-> {}]

IdleSweep == [pc |-> "idle", sel |-> {}]

(* Run(schedule_id=..., status=PENDING, scheduled_at=now, idempotency_key=...) *)
NewRun(id, sid, t) ==
    [id |-> id,
     schedule_id |-> sid,
     idempotency_key |-> IdempotencyKey(sid, t),
     status |-> "PENDING",
     scheduled_at |-> t,
     started_at |-> Null,
     completed_at |-> Null,
     attempt_count |-> 0,
     final_status_code |-> Null,
     final_error_type |-> "NONE",
     final_error_message |-> "",
     attempts |-> <<>>]

(* Variant: the attempt number is not passed on to the Attempt *)
NewAttemptUnnumbered(n) ==
    [attempt_number |-> 1,
     started_at |-> utcnow,
     completed_at |-> Null,
     status_code |-> Null,
     latency_ms |-> Null,
     error_type |-> "NONE",
     error_message |-> ""]

(* Attempt(run_id=..., attempt_number=..., started_at=utcnow()) *)
NewAttempt(n) ==
    [attempt_number |-> n,
     started_at |-> utcnow,
     completed_at |-> Null,
     status_code |-> Null,
     latency_ms |-> Null,
     error_type |-> "NONE",
     error_message |-> ""]

----------------------------------------------------------------------------
(* The trigger engine *)

_add_job_for_schedule(sid) == jobs \cup {sid}

_remove_job_for_schedule(sid) == jobs \ {sid}

----------------------------------------------------------------------------
(* _execute_schedule: the fire handler *)

(* The engine runs a fire in the first free handler slot. *)
FreeSlot(h) ==
    /\ hs[h].pc = "idle"
    /\ \A g \in Handlers : g < h => hs[g].pc # "idle"

(* Variant: the skipped fire runs the finally block *)
FireSkippedReleasesToken(h, sid) ==
    /\ started
    /\ sid \in jobs
    /\ FreeSlot(h)
    /\ TokenHeld(sid)
    /\ running' = running \ {sid}
    /\ UNCHANGED <<now, started, crashes, jobs, sched, runs, nextRun, hs, api,
                   apiCalls, sweep, sweeps, capChanged, lateWindow, deleted,
                   base_retry_delay>>

(* A trigger fires while the token of its schedule is held: the fire is    *)
(* logged and dropped before the try block.                                *)
FireSkipped(h, sid) ==
    /\ started
    /\ sid \in jobs
    /\ FreeSlot(h)
    /\ TokenHeld(sid)
    /\ UNCHANGED vars

(* A trigger fires and takes the token; the handler opens a session and    *)
(* issues the SELECT of the schedule.                                      *)
FireAccepted(h, sid) ==
    /\ started
    /\ sid \in jobs
    /\ FreeSlot(h)
    /\ nextRun <= MaxRuns
    /\ ~TokenHeld(sid)
    /\ running' = running \cup {sid}
    /\ hs' = [hs EXCEPT ![h] = [IdleHandler EXCEPT !.pc = "load", !.sid = sid]]
    /\ UNCHANGED <<now, started, crashes, jobs, sched, runs, nextRun, api,
                   apiCalls, sweep, sweeps, capChanged,
                   lateWindow, deleted,
                   base_retry_delay>>

(* IntervalTrigger(seconds=interval_seconds) of a job registered by        *)
(* add_schedule, whose instant add_schedule stored in started_at: the       *)
(* trigger comes due at registration + k * interval, k >= 1, once per       *)
(* instant.                                                                 *)
TriggerDue(sid) ==
    /\ sid \in DOMAIN sched
    /\ sched[sid].schedule_type = "INTERVAL"
    /\ now_ist > sched[sid].started_at
    /\ (now_ist - sched[sid].started_at) % Seconds(sched[sid].interval_seconds) = 0
    /\ \A r \in DOMAIN runs :
           runs[r].schedule_id = sid => runs[r].scheduled_at # now_ist

FireOnTime(h, sid) == TriggerDue(sid) /\ FireAccepted(h, sid)

(* The SELECT returns: not found, not active, window expired, cap reached, *)
(* or the key of the new Run is computed and looked up.                    *)
HandlerLoad(h) ==
    LET sid == hs[h].sid IN
    /\ hs[h].pc = "load"
    /\ IF sid \notin DOMAIN sched \/ sched[sid].status # "ACTIVE"
       THEN /\ hs' = [hs EXCEPT ![h].pc = "close"]
            /\ UNCHANGED jobs
       ELSE IF WindowExpired(sched[sid]) \/ MaxRunsReached(sched[sid])
       THEN /\ hs' = [hs EXCEPT ![h].pc = "commit_expired",
                                ![h].s = Set(Obj(sched[sid]),
                                             [status |-> "EXPIRED"])]
            /\ jobs' = _remove_job_for_schedule(sid)
       ELSE /\ hs' = [hs EXCEPT ![h].pc = "dupcheck",
                                ![h].s = Obj(sched[sid]),
                                ![h].run = NewRun(0, sid, now_ist)]
            /\ UNCHANGED jobs
    /\ UNCHANGED <<now, started, crashes, running, sched, runs, nextRun, api,
                   apiCalls, sweep, sweeps, capChanged,
                   lateWindow, deleted,
                   base_retry_delay>>

(* The expiry found by the handler is committed. *)
HandlerCommitExpired(h) ==
    LET sid == hs[h].sid IN
    /\ hs[h].pc = "commit_expired"
    /\ hs' = [hs EXCEPT ![h].pc = "close"]
    /\ sched' = IF sid \in DOMAIN sched
                THEN [sched EXCEPT ![sid] = ApplyChanges(@, hs[h].s)]
                ELSE sched
    /\ UNCHANGED <<now, started, crashes, jobs, running, runs, nextRun, api,
                   apiCalls, sweep, sweeps, capChanged,
                   lateWindow, deleted,
                   base_retry_delay>>

(* The lookup of the idempotency key returns. *)
HandlerDupCheck(h) ==
    /\ hs[h].pc = "dupcheck"
    /\ hs' = [hs EXCEPT ![h].pc =
                 IF KeyTaken(hs[h].run.idempotency_key) THEN "close" ELSE "insert"]
    /\ UNCHANGED <<now, started, crashes, jobs, running, sched, runs, nextRun,
                   api, apiCalls, sweep, sweeps, capChanged,
                   lateWindow, deleted,
                   base_retry_delay>>

(* The INSERT of the Run is flushed (the unique index refuses a taken key, *)
(* the exception ends the handler); execute_run then marks it RUNNING.     *)
HandlerInsert(h) ==
    /\ hs[h].pc = "insert"
    /\ IF KeyTaken(hs[h].run.idempotency_key)
       THEN /\ hs' = [hs EXCEPT ![h].pc = "close"]
            /\ UNCHANGED nextRun
       ELSE /\ hs' = [hs EXCEPT ![h].pc = "flush_running",
                                ![h].run = [@ EXCEPT !.id = nextRun,
                                                     !.status = "RUNNING",
                                                     !.started_at = utcnow]]
            /\ nextRun' = nextRun + 1
    /\ UNCHANGED <<now, started, crashes, jobs, running, sched, runs, api,
                   apiCalls, sweep, sweeps, capChanged,
                   lateWindow, deleted,
                   base_retry_delay>>

(* The RUNNING state is flushed; the first attempt is built and sent. *)
HandlerFlushRunning(h) ==
    /\ hs[h].pc = "flush_running"
    /\ hs' = [hs EXCEPT ![h].pc = "http", ![h].att = NewAttempt(1)]
    /\ UNCHANGED <<now, started, crashes, jobs, running, sched, runs, nextRun,
                   api, apiCalls, sweep, sweeps, capChanged,
                   lateWindow, deleted,
                   base_retry_delay>>

(* (end_time - start_time).total_seconds() * 1000, with start_time taken   *)
(* in the same synchronous block as attempt.started_at                      *)
LatencyMs(start_time, end_time) == ((end_time - start_time) * 1000) \div TicksPerSecond

(* _execute_attempt: the request returns a response or raises; only the    *)
(* response path stores latency_ms.                                        *)
HandlerHttp(h, out) ==
    /\ hs[h].pc = "http"
    /\ hs' = [hs EXCEPT ![h].pc = "flush_attempt",
                        ![h].att = [@ EXCEPT !.completed_at = utcnow,
                                             !.latency_ms =
                                                 IF out.exception = "none"
                                                 THEN LatencyMs(hs[h].att.started_at, utcnow)
                                                 ELSE hs[h].att.latency_ms,
                                             !.status_code = Recorded(out).status_code,
                                             !.error_type = Recorded(out).error_type,
                                             !.error_message =
                                                 Recorded(out).error_message]]
    /\ UNCHANGED <<now, started, crashes, jobs, running, sched, runs, nextRun,
                   api, apiCalls, sweep, sweeps, capChanged,
                   lateWindow, deleted,
                   base_retry_delay>>

(* Variant: any response, whatever its status code, ends the Run as a success *)
VerdictAnyResponse(att) ==
    IF att.status_code # Null THEN "success" ELSE "retry"

(* Variant: a 4xx response is retried like a 5xx *)
VerdictRetriesClientError(att) ==
    IF att.error_type = "NONE" THEN "success" ELSE "retry"

(* execute_run, the branch an attempt takes: success and client error      *)
(* break the loop, every other kind is retryable.                          *)
Verdict(att) ==
    IF att.error_type = "NONE" THEN "success"
    ELSE IF att.error_type = "CLIENT_ERROR" THEN "fail"
    ELSE "retry"

(* Variant: the loop runs over range(1, max_retries) *)
HasRetryLeftShort(attempt_num) == attempt_num + 1 < max_retries

(* if attempt_num < self.max_retries: sleep, then the next attempt *)
HasRetryLeft(attempt_num) == attempt_num < max_retries

(* Variant: the block after the loop leaves the Run as it is *)
ExhaustedStatusStaysRunning(attempts) == "RUNNING"

(* Variant: the Run is TIMEOUT when any of its attempts timed out *)
ExhaustedStatusAnyTimeout(attempts) ==
    IF \E i \in 1..Len(attempts) : attempts[i].error_type = "TIMEOUT"
    THEN "TIMEOUT"
    ELSE "FAILED"

(* The status of a Run that exhausted its retries, from its last attempt *)
ExhaustedStatus(attempts) ==
    IF attempts[Len(attempts)].error_type = "TIMEOUT" THEN "TIMEOUT" ELSE "FAILED"

(* Variant: the status code of the attempt is not copied to the Run *)
FinalizedWithoutCode(r, att) ==
    [r EXCEPT !.final_error_type = att.error_type,
              !.final_error_message = att.error_message]

(* run.final_status_code, final_error_type, final_error_message *)
Finalized(r, att) ==
    [r EXCEPT !.final_status_code = att.status_code,
              !.final_error_type = att.error_type,
              !.final_error_message = att.error_message]

(* execute_run after an attempt was recorded: the run with the attempt     *)
(* counted and, when the loop ends here, finalized.                        *)
AfterAttempt(run, att) ==
    LET r == [run EXCEPT !.attempts = Append(@, att),
                         !.attempt_count = att.attempt_number] IN
    IF Verdict(att) = "success"
    THEN [r EXCEPT !.status = "SUCCESS",
                   !.final_status_code = att.status_code,
                   !.final_error_type = "NONE",
                   !.completed_at = utcnow]
    ELSE IF Verdict(att) = "fail"
    THEN [Finalized(r, att) EXCEPT !.status = "FAILED",
                                   !.completed_at = utcnow]
    ELSE IF HasRetryLeft(att.attempt_number)
    THEN r
    ELSE [Finalized(r, att) EXCEPT !.status = ExhaustedStatus(r.attempts),
                                   !.completed_at = utcnow]

RECURSIVE Pow2(_)
Pow2(n) == IF n = 0 THEN 1 ELSE 2 * Pow2(n - 1)

(* Variant: the delay is not capped *)
BackoffUncapped(attempt_num, base_delay) == base_delay * Pow2(attempt_num - 1)

(* calculate_backoff_delay, in seconds *)
calculate_backoff_delay(attempt_num, base_delay) ==
    IF base_delay * Pow2(attempt_num - 1) < MaxDelaySeconds
    THEN base_delay * Pow2(attempt_num - 1)
    ELSE MaxDelaySeconds

(* The INSERT of the Attempt is flushed; execute_run decides the next step: *)
(* it ends the Run, or computes the backoff delay and sleeps.               *)
HandlerFlushAttempt(h) ==
    LET r == AfterAttempt(hs[h].run, hs[h].att) IN
    /\ hs[h].pc = "flush_attempt"
    /\ hs' = [hs EXCEPT ![h].run = r,
                        ![h].pc = IF r.status = "RUNNING" THEN "sleep"
                                  ELSE "flush_final",
                        ![h].backoff_delay =
                            IF r.status = "RUNNING"
                            THEN calculate_backoff_delay(hs[h].att.attempt_number,
                                                         base_retry_delay)
                            ELSE 0]
    /\ UNCHANGED <<now, started, crashes, jobs, running, sched, runs, nextRun,
                   api, apiCalls, sweep, sweeps, capChanged,
                   lateWindow, deleted,
                   base_retry_delay>>

(* The backoff sleep ends; the next attempt is built and sent. *)
HandlerSleep(h) ==
    /\ hs[h].pc = "sleep"
    /\ hs' = [hs EXCEPT ![h].pc = "http",
                        ![h].backoff_delay = 0,
                        ![h].att = NewAttempt(hs[h].att.attempt_number + 1)]
    /\ UNCHANGED <<now, started, crashes, jobs, running, sched, runs, nextRun,
                   api, apiCalls, sweep, sweeps, capChanged,
                   lateWindow, deleted,
                   base_retry_delay>>

(* Variant: the run is counted twice *)
AfterRunCountedTwice(obj) ==
    LET counted == Set(obj, [run_count |-> obj.cur.run_count + 2,
                             last_run_at |-> now_ist,
                             next_run_at |-> _calculate_next_run(obj.cur)]) IN
    IF MaxRunsReached(counted.cur)
    THEN Set(counted, [status |-> "EXPIRED"])
    ELSE counted

(* Update schedule stats (scheduler.py, after execute_run returned) *)
AfterRun(obj) ==
    LET counted == Set(obj, [run_count |-> obj.cur.run_count + 1,
                             last_run_at |-> now_ist,
                             next_run_at |-> _calculate_next_run(obj.cur)]) IN
    IF MaxRunsReached(counted.cur)
    THEN Set(counted, [status |-> "EXPIRED"])
    ELSE counted

(* The terminal state of the Run is flushed; the schedule is counted and,  *)
(* at the cap, expired and deregistered.                                   *)
HandlerFlushFinal(h) ==
    LET obj == AfterRun(hs[h].s) IN
    /\ hs[h].pc = "flush_final"
    /\ hs' = [hs EXCEPT ![h].pc = "commit", ![h].s = obj]
    /\ jobs' = IF MaxRunsReached(obj.cur)
               THEN _remove_job_for_schedule(hs[h].sid)
               ELSE jobs
    /\ UNCHANGED <<now, started, crashes, running, sched, runs, nextRun, api,
                   apiCalls, sweep, sweeps, capChanged,
                   lateWindow, deleted,
                   base_retry_delay>>

(* session.commit(): the Run, its Attempts and the schedule's counters     *)
(* become durable together; the UPDATE of a schedule row that is gone      *)
(* raises and nothing is committed.                                        *)
HandlerCommit(h) ==
    LET sid == hs[h].sid IN
    /\ hs[h].pc = "commit"
    /\ hs' = [hs EXCEPT ![h].pc = "close"]
    /\ IF sid \in DOMAIN sched
       THEN /\ sched' = [sched EXCEPT ![sid] = ApplyChanges(@, hs[h].s)]
            /\ runs' = runs @@ (hs[h].run.id :> hs[h].run)
       ELSE UNCHANGED <<sched, runs>>
    /\ UNCHANGED <<now, started, crashes, jobs, running, nextRun, api,
                   apiCalls, sweep, sweeps, capChanged,
                   lateWindow, deleted,
                   base_retry_delay>>

(* Variant: the handler returns without the finally block *)
HandlerCloseKeepsToken(h) ==
    /\ hs[h].pc = "close"
    /\ hs' = [hs EXCEPT ![h] = IdleHandler]
    /\ UNCHANGED <<now, started, crashes, jobs, running, sched, runs, nextRun,
                   api, apiCalls, sweep, sweeps, capChanged, lateWindow,
                   deleted, base_retry_delay>>

(* The session is closed and the finally block releases the token. *)
HandlerClose(h) ==
    /\ hs[h].pc = "close"
    /\ hs' = [hs EXCEPT ![h] = IdleHandler]
    /\ running' = running \ {hs[h].sid}
    /\ UNCHANGED <<now, started, crashes, jobs, sched, runs, nextRun, api,
                   apiCalls, sweep, sweeps, capChanged,
                   lateWindow, deleted,
                   base_retry_delay>>

----------------------------------------------------------------------------
(* A second process of the service on the same Store runs _execute_schedule *)
(* for the schedule within the current second and commits: its Run with    *)
(* the Attempt, and the schedule's counters.  The unique index refuses a    *)
(* key that a committed Run or a Run inserted by a handler in flight holds. *)
PeerCommitRun(sid) ==
    LET att == [NewAttempt(1) EXCEPT !.completed_at = utcnow,
                                     !.latency_ms = 0,
                                     !.status_code = 200]
        run == AfterAttempt([NewRun(nextRun, sid, now_ist)
                                 EXCEPT !.status = "RUNNING",
                                        !.started_at = utcnow], att)
    IN
    /\ started
    /\ nextRun <= MaxRuns
    /\ sid \in DOMAIN sched
    /\ sched[sid].status = "ACTIVE"
    /\ ~WindowExpired(sched[sid])
    /\ ~MaxRunsReached(sched[sid])
    /\ ~KeyTaken(run.idempotency_key)
    /\ \A h \in Handlers :
           hs[h].pc \in {"flush_running", "http", "flush_attempt", "sleep",
                         "flush_final", "commit"}
               => hs[h].run.idempotency_key # run.idempotency_key
    /\ runs' = runs @@ (nextRun :> run)
    /\ nextRun' = nextRun + 1
    /\ sched' = [sched EXCEPT ![sid] = ApplyChanges(@, AfterRun(Obj(@)))]
    /\ UNCHANGED <<now, started, crashes, jobs, running, hs, api, apiCalls,
                   sweep, sweeps, capChanged, lateWindow, deleted,
                   base_retry_delay>>

----------------------------------------------------------------------------
(* The control API: app/routers/schedules.py.  One request at a time is    *)
(* followed; each runs in a session of its own that get_db commits when    *)
(* the route returns and rolls back when it raises.  A request is two      *)
(* steps: the route's code from the return of its SELECT to its flush, and *)
(* the flush, refresh and commit.                                          *)

(* Schedule(...) as create_schedule builds it and the INSERT stores it *)
NewSchedule(in) ==
    [status |-> "ACTIVE",
     schedule_type |-> in.schedule_type,
     cron_expression |-> in.cron_expression,
     interval_seconds |-> in.interval_seconds,
     duration_seconds |-> in.duration_seconds,
     max_runs |-> in.max_runs,
     started_at |-> Null,
     expires_at |-> Null,
     run_count |-> 0,
     last_run_at |-> Null,
     next_run_at |-> Null]

(* ScheduleCreate.validate_schedule_type_requirements: the body is accepted *)
validate_schedule_type_requirements(in) ==
    /\ in.schedule_type = "INTERVAL"
           => in.interval_seconds # Null /\ in.interval_seconds >= 1
    /\ in.schedule_type = "CRON" => in.cron_expression # NoCron

CreateInputs ==
    [schedule_type : {"INTERVAL"},
     interval_seconds : IntervalChoices,
     cron_expression : {NoCron},
     duration_seconds : DurationChoices,
     max_runs : MaxRunsChoices]

(* ScheduleCreate bodies over both kinds and both cadence fields *)
CadenceCreateInputs ==
    [schedule_type : ScheduleType,
     interval_seconds : {Null} \cup IntervalChoices,
     cron_expression : CronChoices,
     duration_seconds : {Null},
     max_runs : {Null}]

(* ScheduleUpdate bodies: the fields that were set in the request *)
UpdateInputs ==
    {[max_runs |-> v] : v \in MaxRunsChoices}
        \cup {[duration_seconds |-> v] : v \in DurationChoices}

(* ScheduleUpdate bodies that set one cadence field, null included *)
CadenceUpdateInputs ==
    {[interval_seconds |-> v] : v \in {Null} \cup IntervalChoices}
        \cup {[cron_expression |-> v] : v \in CronChoices}

(* SchedulerEngine.add_schedule: the fields it sets on the object *)
add_schedule(obj) ==
    LET s0 == obj.cur
        st == IF s0.started_at = Null THEN now_ist ELSE s0.started_at
        ex == IF s0.duration_seconds # Null /\ s0.duration_seconds # 0
                 /\ s0.expires_at = Null
              THEN st + Seconds(s0.duration_seconds)
              ELSE s0.expires_at
    IN Set(obj, [started_at |-> st,
                 expires_at |-> ex,
                 next_run_at |-> _calculate_next_run(s0)])

(* SchedulerEngine.pause_schedule *)
pause_schedule(obj) == Set(obj, [status |-> "PAUSED", next_run_at |-> Null])

(* SchedulerEngine.resume_schedule raises at the evaluation of             *)
(* datetime.now_ist(), which is reached when expires_at is set, and in     *)
(* _calculate_next_run when the schedule is to become ACTIVE.              *)
ResumeRaises(s) ==
    \/ s.expires_at # Null
    \/ ~MaxRunsReached(s) /\ NextRunRaises(s)

(* SchedulerEngine.resume_schedule, when it does not raise *)
resume_schedule(obj) ==
    IF MaxRunsReached(obj.cur)
    THEN Set(obj, [status |-> "EXPIRED"])
    ELSE Set(obj, [status |-> "ACTIVE",
                   next_run_at |-> _calculate_next_run(obj.cur)])

ApiRequest(op, sid, obj) ==
    [pc |-> "commit", op |-> op, sid |-> sid, s |-> obj, runs |-> {}]

(* SchedulerEngine.delete_schedule *)
delete_schedule(obj) == Set(obj, [status |-> "DELETED"])

(* session.delete(schedule): the Runs of the schedule that the cascade      *)
(* loads through Schedule.runs, the committed ones.                         *)
Cascade(sid) == {r \in DOMAIN runs : runs[r].schedule_id = sid}

(* create_schedule: the INSERT of the new Schedule has been flushed;       *)
(* add_schedule sets its times and registers its job.                      *)
ApiCreate(sid, in) ==
    /\ started
    /\ api.pc = "idle"
    /\ apiCalls < MaxApiCalls
    /\ sid \notin DOMAIN sched
    /\ sid \notin deleted
    /\ TargetId \notin deleted
    /\ validate_schedule_type_requirements(in)
    /\ api' = ApiRequest("create", sid, add_schedule(Obj(NewSchedule(in))))
    /\ jobs' = _add_job_for_schedule(sid)
    /\ apiCalls' = apiCalls + 1
    /\ UNCHANGED <<now, started, crashes, running, sched, runs, nextRun, hs,
                   sweep, sweeps, capChanged,
                   lateWindow, deleted,
                   base_retry_delay>>

(* update_schedule: the SELECT returns; 404, or the fields are set and an  *)
(* ACTIVE schedule is registered again (a 500 when add_schedule raises,    *)
(* and the session is rolled back).                                        *)
ApiUpdate(sid, in) ==
    /\ started
    /\ api.pc = "idle"
    /\ apiCalls < MaxApiCalls
    /\ IF \/ sid \notin DOMAIN sched
          \/ LET s == Set(Obj(sched[sid]), in).cur
             IN s.status = "ACTIVE" /\ NextRunRaises(s)
       THEN UNCHANGED <<api, jobs, apiCalls, capChanged>>
       ELSE LET changed == Set(Obj(sched[sid]), in) IN
            /\ apiCalls' = apiCalls + 1
            /\ capChanged' = IF changed.cur.max_runs # sched[sid].max_runs
                             THEN capChanged \cup {sid}
                             ELSE capChanged
            /\ IF changed.cur.status = "ACTIVE"
               THEN /\ api' = ApiRequest("update", sid, add_schedule(changed))
                    /\ jobs' = _add_job_for_schedule(sid)
               ELSE /\ api' = ApiRequest("update", sid, changed)
                    /\ UNCHANGED jobs
    /\ UNCHANGED <<now, started, crashes, running, sched, runs, nextRun, hs,
                   sweep, sweeps, lateWindow, deleted,
                   base_retry_delay>>

(* delete_schedule: the SELECT returns; 404, or the job is removed, the    *)
(* schedule marked DELETED and, with the Runs the cascade loads, marked    *)
(* for deletion.                                                           *)
ApiDelete(sid) ==
    /\ started
    /\ api.pc = "idle"
    /\ apiCalls < MaxApiCalls
    /\ IF sid \notin DOMAIN sched
       THEN UNCHANGED <<api, jobs, apiCalls>>
       ELSE /\ apiCalls' = apiCalls + 1
            /\ api' = [ApiRequest("delete", sid, delete_schedule(Obj(sched[sid])))
                          EXCEPT !.runs = Cascade(sid)]
            /\ jobs' = _remove_job_for_schedule(sid)
    /\ UNCHANGED <<now, started, crashes, running, sched, runs, nextRun, hs,
                   sweep, sweeps, capChanged, lateWindow, deleted,
                   base_retry_delay>>

(* delete_target: the SELECT of the target and its schedules returns; 404, *)
(* or the jobs of its ACTIVE schedules are removed and the target, with    *)
(* the schedules and Runs the cascade loads, is marked for deletion.       *)
ApiDeleteTarget ==
    /\ started
    /\ api.pc = "idle"
    /\ apiCalls < MaxApiCalls
    /\ IF TargetId \in deleted
       THEN UNCHANGED <<api, jobs, apiCalls>>
       ELSE /\ apiCalls' = apiCalls + 1
            /\ api' = [ApiRequest("delete_target", TargetId, NoObj)
                          EXCEPT !.runs = UNION {Cascade(sid) : sid \in DOMAIN sched}]
            /\ jobs' = jobs \ {sid \in DOMAIN sched : sched[sid].status = "ACTIVE"}
    /\ UNCHANGED <<now, started, crashes, running, sched, runs, nextRun, hs,
                   sweep, sweeps, capChanged, lateWindow, deleted,
                   base_retry_delay>>

(* get_db's commit of a delete_target request: the DELETE of the target,   *)
(* of its schedules and of the Runs, with their Attempts, that the cascade *)
(* had loaded.                                                             *)
ApiCommitDeleteTarget ==
    /\ api.pc = "commit"
    /\ api.op = "delete_target"
    /\ api' = IdleApi
    /\ sched' = <<>>
    /\ runs' = [r \in DOMAIN runs \ api.runs |-> runs[r]]
    /\ deleted' = deleted \cup {TargetId} \cup DOMAIN sched
    /\ UNCHANGED <<now, started, crashes, jobs, running, nextRun, hs,
                   apiCalls, sweep, sweeps, capChanged, lateWindow,
                   base_retry_delay>>

(* Variant: only a schedule that is already PAUSED is refused *)
PauseRejectedOnlyPaused(s) == s.status = "PAUSED"

(* pause_schedule answers 400: the schedule is not ACTIVE *)
PauseRejected(s) == s.status # "ACTIVE"

(* resume_schedule answers 400: the schedule is not PAUSED *)
ResumeRejected(s) == s.status # "PAUSED"

(* pause_schedule: the SELECT returns; 404, 400, or the job is removed and *)
(* the schedule marked PAUSED.                                             *)
ApiPause(sid) ==
    /\ started
    /\ api.pc = "idle"
    /\ apiCalls < MaxApiCalls
    /\ IF sid \notin DOMAIN sched \/ PauseRejected(sched[sid])
       THEN UNCHANGED <<api, jobs, apiCalls>>
       ELSE /\ apiCalls' = apiCalls + 1
            /\ api' = ApiRequest("pause", sid, pause_schedule(Obj(sched[sid])))
            /\ jobs' = _remove_job_for_schedule(sid)
    /\ UNCHANGED <<now, started, crashes, running, sched, runs, nextRun, hs,
                   sweep, sweeps, capChanged,
                   lateWindow, deleted,
                   base_retry_delay>>

(* resume_schedule: the SELECT returns; 404, 400, the engine call raises   *)
(* (500, rolled back), or the schedule is expired or activated.            *)
ApiResume(sid) ==
    /\ started
    /\ api.pc = "idle"
    /\ apiCalls < MaxApiCalls
    /\ IF \/ sid \notin DOMAIN sched
          \/ ResumeRejected(sched[sid])
          \/ ResumeRaises(sched[sid])
       THEN UNCHANGED <<api, jobs, apiCalls>>
       ELSE LET obj == resume_schedule(Obj(sched[sid])) IN
            /\ apiCalls' = apiCalls + 1
            /\ api' = ApiRequest("resume", sid, obj)
            /\ jobs' = IF obj.cur.status = "ACTIVE"
                       THEN _add_job_for_schedule(sid)
                       ELSE jobs
    /\ UNCHANGED <<now, started, crashes, running, sched, runs, nextRun, hs,
                   sweep, sweeps, capChanged,
                   lateWindow, deleted,
                   base_retry_delay>>

(* The commit of the request in progress stores an expires_at, on a row    *)
(* that had none, that has already passed.                                 *)
WindowStoredLate ==
    /\ api.s.cur.expires_at # Null
    /\ api.s.loaded.expires_at = Null
    /\ api.op = "create" \/ api.sid \in DOMAIN sched
    /\ now_ist > api.s.cur.expires_at

(* The flush and get_db's commit: the INSERT of a created schedule, or the *)
(* UPDATE of the changed columns (which raises when the row is gone).      *)
ApiCommit ==
    /\ api.pc = "commit"
    /\ api.op \notin {"delete", "delete_target"}
    /\ api' = IdleApi
    /\ sched' = IF api.op = "create"
                THEN sched @@ (api.sid :> api.s.cur)
                ELSE IF api.sid \in DOMAIN sched
                THEN [sched EXCEPT ![api.sid] = ApplyChanges(@, api.s)]
                ELSE sched
    /\ lateWindow' = IF WindowStoredLate THEN lateWindow \cup {api.sid}
                     ELSE lateWindow
    /\ UNCHANGED <<now, started, crashes, jobs, running, runs, nextRun, hs,
                   apiCalls, sweep, sweeps, capChanged, deleted,
                   base_retry_delay>>

(* get_db's commit of a delete request: the DELETE of the schedule row and  *)
(* of the Runs, with their Attempts, that the cascade had loaded.           *)
ApiCommitDelete ==
    /\ api.pc = "commit"
    /\ api.op = "delete"
    /\ api' = IdleApi
    /\ sched' = [sid \in DOMAIN sched \ {api.sid} |-> sched[sid]]
    /\ runs' = [r \in DOMAIN runs \ api.runs |-> runs[r]]
    /\ deleted' = deleted \cup {api.sid}
    /\ UNCHANGED <<now, started, crashes, jobs, running, nextRun, hs,
                   apiCalls, sweep, sweeps, capChanged, lateWindow,
                   base_retry_delay>>

----------------------------------------------------------------------------
(* _check_expired_windows: the window sweeper *)

SweepSelected(t) ==
    {sid \in DOMAIN sched :
        /\ sched[sid].status = "ACTIVE"
        /\ sched[sid].expires_at # Null
        /\ sched[sid].expires_at <= t}

(* The SELECT returns; the selected schedules are marked and deregistered. *)
SweepSelect ==
    /\ started
    /\ sweep.pc = "idle"
    /\ sweeps < MaxSweeps
    /\ sweep' = [pc |-> "commit", sel |-> SweepSelected(now_ist)]
    /\ jobs' = jobs \ SweepSelected(now_ist)
    /\ sweeps' = sweeps + 1
    /\ UNCHANGED <<now, started, crashes, running, sched, runs, nextRun, hs,
                   api, apiCalls, capChanged,
                   lateWindow, deleted,
                   base_retry_delay>>

(* The commit: one UPDATE per marked schedule; a row that is gone makes    *)
(* the flush raise, and nothing is committed.                              *)
SweepCommit ==
    /\ sweep.pc = "commit"
    /\ sweep' = IdleSweep
    /\ sched' = IF sweep.sel \subseteq DOMAIN sched
                THEN [sid \in DOMAIN sched |->
                        IF sid \in sweep.sel
                        THEN [sched[sid] EXCEPT !.status = "EXPIRED"]
                        ELSE sched[sid]]
                ELSE sched
    /\ UNCHANGED <<now, started, crashes, jobs, running, runs, nextRun, hs,
                   api, apiCalls, sweeps, capChanged,
                   lateWindow, deleted,
                   base_retry_delay>>

(* Variant: the sweeper's trigger has twice the interval *)
SweepsDueSlow(t) == t \div (2 * Seconds(SweepPeriodSeconds))

(* The runs of the sweeper's IntervalTrigger that are due by clock t, for a *)
(* process started at clock 0: one every SweepPeriodSeconds.                *)
SweepsDue(t) == t \div Seconds(SweepPeriodSeconds)

(* The sweeper runs when its trigger is due. *)
SweepOnTime ==
    /\ sweeps < SweepsDue(now)
    /\ SweepSelect

(* _check_expired_windows raises in its commit: the exception is caught    *)
(* and logged, the session is rolled back; the jobs stay removed.           *)
SweepCommitRaises ==
    /\ sweep.pc = "commit"
    /\ sweep' = IdleSweep
    /\ UNCHANGED <<now, started, crashes, jobs, running, sched, runs, nextRun,
                   hs, api, apiCalls, sweeps, capChanged, lateWindow, deleted,
                   base_retry_delay>>

----------------------------------------------------------------------------
(* Start-up recovery, crash, clock *)

(* Variant: the sweep without its status filter *)
RecoverEveryRun(r) ==
    [r EXCEPT !.status = "FAILED",
              !.completed_at = now_ist,
              !.final_error_message = "Server restarted while run was in progress"]

(* Variant: the sweep without the completion time *)
RecoverUnstamped(r) ==
    IF r.status \in {"RUNNING", "PENDING"}
    THEN [r EXCEPT !.status = "FAILED",
                   !.final_error_message = "Server restarted while run was in progress"]
    ELSE r

(* Variant: the sweep selects RUNNING only *)
RecoverOnlyRunning(r) ==
    IF r.status = "RUNNING"
    THEN [r EXCEPT !.status = "FAILED",
                   !.completed_at = now_ist,
                   !.final_error_message = "Server restarted while run was in progress"]
    ELSE r

(* _recover_orphaned_runs: a Run left PENDING or RUNNING is failed *)
_recover_orphaned_runs(r) ==
    IF r.status \in {"RUNNING", "PENDING"}
    THEN [r EXCEPT !.status = "FAILED",
                   !.completed_at = now_ist,
                   !.final_error_message = "Server restarted while run was in progress"]
    ELSE r

(* Variant: recovery checks the window only *)
RecoverExpiresWindowOnly(s) ==
    s.status = "ACTIVE" /\ WindowExpired(s)

(* _recover_schedules: an ACTIVE schedule is expired or registered again *)
RecoverExpires(s) ==
    s.status = "ACTIVE" /\ (WindowExpired(s) \/ MaxRunsReached(s))

(* SchedulerEngine.start: recovery runs before the process serves          *)
(* requests and before any trigger can fire.                               *)
Start ==
    /\ ~started
    /\ started' = TRUE
    /\ runs' = [r \in DOMAIN runs |-> _recover_orphaned_runs(runs[r])]
    /\ sched' = [sid \in DOMAIN sched |->
                    IF RecoverExpires(sched[sid])
                    THEN [sched[sid] EXCEPT !.status = "EXPIRED"]
                    ELSE sched[sid]]
    /\ jobs' = {sid \in DOMAIN sched :
                    sched[sid].status = "ACTIVE" /\ ~RecoverExpires(sched[sid])}
    /\ UNCHANGED <<now, crashes, running, nextRun, hs, api, apiCalls, sweep,
                   sweeps, capChanged,
                   lateWindow, deleted,
                   base_retry_delay>>

(* _recover_schedules raises outside the per-schedule try block: in the    *)
(* orphan sweep, in the SELECT of the schedules or in the commit.  The      *)
(* session is rolled back, the exception leaves start() and the lifespan    *)
(* start-up, and the process ends without having served.                    *)
StartRaises ==
    /\ ~started
    /\ crashes < MaxCrashes
    /\ crashes' = crashes + 1
    /\ UNCHANGED <<now, started, jobs, running, sched, runs, nextRun, hs, api,
                   apiCalls, sweep, sweeps, capChanged, lateWindow, deleted,
                   base_retry_delay>>

(* _recover_schedules with _add_job_for_schedule raising for the schedules *)
(* in failed: the exception is caught and logged, the schedule stays       *)
(* ACTIVE without a job, and recovery goes on.                             *)
StartReregisterRaises(failed) ==
    /\ failed # {}
    /\ failed \subseteq {sid \in DOMAIN sched :
                            sched[sid].status = "ACTIVE" /\ ~RecoverExpires(sched[sid])}
    /\ ~started
    /\ started' = TRUE
    /\ runs' = [r \in DOMAIN runs |-> _recover_orphaned_runs(runs[r])]
    /\ sched' = [sid \in DOMAIN sched |->
                    IF RecoverExpires(sched[sid])
                    THEN [sched[sid] EXCEPT !.status = "EXPIRED"]
                    ELSE sched[sid]]
    /\ jobs' = {sid \in DOMAIN sched :
                    sched[sid].status = "ACTIVE" /\ ~RecoverExpires(sched[sid])}
                \ failed
    /\ UNCHANGED <<now, crashes, running, nextRun, hs, api, apiCalls, sweep,
                   sweeps, capChanged, lateWindow, deleted, base_retry_delay>>

(* The process dies: the engine, the tokens and every open session are     *)
(* lost; the committed rows stay.                                          *)
Crash ==
    /\ started
    /\ crashes < MaxCrashes
    /\ crashes' = crashes + 1
    /\ started' = FALSE
    /\ jobs' = {}
    /\ running' = {}
    /\ hs' = [h \in Handlers |-> IdleHandler]
    /\ api' = IdleApi
    /\ sweep' = IdleSweep
    /\ UNCHANGED <<now, sched, runs, nextRun, apiCalls, sweeps, capChanged,
                   lateWindow, deleted,
                   base_retry_delay>>

(* The clock advances by one tick, or by one second. *)
Tick ==
    /\ now < MaxTime
    /\ now' = now + 1
    /\ UNCHANGED <<started, crashes, jobs, running, sched, runs, nextRun, hs,
                   api, apiCalls, sweep, sweeps, capChanged,
                   lateWindow, deleted,
                   base_retry_delay>>

TickSecond ==
    /\ now + TicksPerSecond <= MaxTime
    /\ now' = now + TicksPerSecond
    /\ UNCHANGED <<started, crashes, jobs, running, sched, runs, nextRun, hs,
                   api, apiCalls, sweep, sweeps, capChanged,
                   lateWindow, deleted,
                   base_retry_delay>>

(* The clock advances by a tick, up to a second past MaxTime: far enough    *)
(* for a trigger of one second to fire and for its run to take time.        *)
TickInterval ==
    /\ now < MaxTime + Seconds(1)
    /\ now' = now + 1
    /\ UNCHANGED <<started, crashes, jobs, running, sched, runs, nextRun, hs,
                   api, apiCalls, sweep, sweeps, capChanged,
                   lateWindow, deleted,
                   base_retry_delay>>

(* The clock advances by half a sweep period; a request and a sweep take   *)
(* less than that, and the sweeper is never late: the clock does not pass  *)
(* a run of the sweeper that is due.                                       *)
TickSweep ==
    /\ started
    /\ api.pc = "idle"
    /\ sweep.pc = "idle"
    /\ sweeps = SweepsDue(now)
    /\ SweepsDue(now + Seconds(SweepPeriodSeconds) \div 2) <= MaxSweeps
    /\ now' = now + Seconds(SweepPeriodSeconds) \div 2
    /\ UNCHANGED <<started, crashes, jobs, running, sched, runs, nextRun, hs,
                   api, apiCalls, sweep, sweeps, capChanged,
                   lateWindow, deleted,
                   base_retry_delay>>

----------------------------------------------------------------------------
Init ==
    /\ now = 0
    /\ started = FALSE
    /\ crashes = 0
    /\ jobs = {}
    /\ running = {}
    /\ sched = <<>>
    /\ runs = <<>>
    /\ nextRun = 1
    /\ hs = [h \in Handlers |-> IdleHandler]
    /\ api = IdleApi
    /\ apiCalls = 0
    /\ sweep = IdleSweep
    /\ sweeps = 0
    /\ capChanged = {}
    /\ lateWindow = {}
    /\ deleted = {}
    /\ base_retry_delay = retry_delay_seconds

(* The fire handler from the token to the close of its session, without    *)
(* the HTTP request and the backoff sleep.                                 *)
Handler ==
    \/ \E h \in Handlers, sid \in ScheduleIds : FireSkipped(h, sid)
    \/ \E h \in Handlers : HandlerLoad(h)
    \/ \E h \in Handlers : HandlerDupCheck(h)
    \/ \E h \in Handlers : HandlerInsert(h)
    \/ \E h \in Handlers : HandlerFlushRunning(h)
    \/ \E h \in Handlers : HandlerFlushAttempt(h)
    \/ \E h \in Handlers : HandlerFlushFinal(h)
    \/ \E h \in Handlers : HandlerCommit(h)
    \/ \E h \in Handlers : HandlerClose(h)

(* The system: every operation of the control API, the sweeper, crashes,   *)
(* and a target whose answers end each Run at its first attempt.           *)
Next ==
    \/ Handler
    \/ \E h \in Handlers, sid \in ScheduleIds : FireAccepted(h, sid)
    \/ \E h \in Handlers : HandlerCommitExpired(h)
    \/ \E h \in Handlers, out \in FinalOutcomes : HandlerHttp(h, out)
    \/ \E sid \in ScheduleIds, in \in CreateInputs : ApiCreate(sid, in)
    \/ \E sid \in ScheduleIds, in \in UpdateInputs : ApiUpdate(sid, in)
    \/ \E sid \in ScheduleIds : ApiPause(sid)
    \/ \E sid \in ScheduleIds : ApiResume(sid)
    \/ ApiCommit
    \/ SweepSelect
    \/ SweepCommit
    \/ Start
    \/ Crash
    \/ TickSecond

Spec == Init /\ [][Next]_vars

(* The fires of a schedule against the clock: a schedule is created and    *)
(* fired at any tick, several times within a second or across seconds.     *)
NextKeys ==
    \/ Handler
    \/ \E h \in Handlers, sid \in ScheduleIds : FireAccepted(h, sid)
    \/ \E h \in Handlers : HandlerCommitExpired(h)
    \/ \E h \in Handlers, out \in FinalOutcomes : HandlerHttp(h, out)
    \/ \E sid \in ScheduleIds, in \in CreateInputs : ApiCreate(sid, in)
    \/ ApiCommit
    \/ Start
    \/ Crash
    \/ Tick

SpecKeys == Init /\ [][NextKeys]_vars

(* Fires of a schedule while a second process fires it as well: the key   *)
(* of a fire may be taken before the lookup, or between the lookup and the *)
(* INSERT.                                                                  *)
NextPeer ==
    \/ Handler
    \/ \E h \in Handlers, sid \in ScheduleIds : FireAccepted(h, sid)
    \/ \E h \in Handlers : HandlerCommitExpired(h)
    \/ \E h \in Handlers, out \in FinalOutcomes : HandlerHttp(h, out)
    \/ \E sid \in ScheduleIds, in \in CreateInputs : ApiCreate(sid, in)
    \/ ApiCommit
    \/ \E sid \in ScheduleIds : PeerCommitRun(sid)
    \/ Start
    \/ Tick

SpecPeer == Init /\ [][NextPeer]_vars

(* An interval schedule against the clock: the schedule is created, its    *)
(* trigger fires at its instants and the runs take any time.                *)
NextInterval ==
    \/ Handler
    \/ \E h \in Handlers, sid \in ScheduleIds : FireOnTime(h, sid)
    \/ \E h \in Handlers : HandlerCommitExpired(h)
    \/ \E h \in Handlers, out \in FinalOutcomes : HandlerHttp(h, out)
    \/ \E sid \in ScheduleIds, in \in CreateInputs : ApiCreate(sid, in)
    \/ ApiCommit
    \/ Start
    \/ TickInterval

SpecInterval == Init /\ [][NextInterval]_vars

(* The schedule API over both kinds: create, update, pause and resume      *)
(* requests with every combination of the cadence fields.                  *)
NextCadence ==
    \/ \E sid \in ScheduleIds, in \in CadenceCreateInputs : ApiCreate(sid, in)
    \/ \E sid \in ScheduleIds, in \in CadenceUpdateInputs : ApiUpdate(sid, in)
    \/ \E sid \in ScheduleIds : ApiPause(sid)
    \/ \E sid \in ScheduleIds : ApiResume(sid)
    \/ ApiCommit
    \/ Start
    \/ Tick

SpecCadence == Init /\ [][NextCadence]_vars

(* The window sweeper against the clock: the process starts at clock 0,    *)
(* schedules are created, updated and paused at any time, no trigger       *)
(* fires, and the sweeper runs once every period.                          *)
NextSweep ==
    \/ \E sid \in ScheduleIds, in \in CreateInputs : ApiCreate(sid, in)
    \/ \E sid \in ScheduleIds, in \in UpdateInputs : ApiUpdate(sid, in)
    \/ \E sid \in ScheduleIds : ApiPause(sid)
    \/ ApiCommit
    \/ SweepOnTime
    \/ SweepCommit
    \/ Start
    \/ TickSweep

SpecSweep == Init /\ [][NextSweep]_vars

(* Deletion against the fires: a schedule is created, fires, and is        *)
(* deleted at any point of a fire.                                         *)
NextDelete ==
    \/ Handler
    \/ \E h \in Handlers, sid \in ScheduleIds : FireAccepted(h, sid)
    \/ \E h \in Handlers : HandlerCommitExpired(h)
    \/ \E h \in Handlers, out \in FinalOutcomes : HandlerHttp(h, out)
    \/ \E sid \in ScheduleIds, in \in CreateInputs : ApiCreate(sid, in)
    \/ \E sid \in ScheduleIds : ApiDelete(sid)
    \/ ApiCommit
    \/ ApiCommitDelete
    \/ Start
    \/ TickSecond

SpecDelete == Init /\ [][NextDelete]_vars

(* Deletion of the target against the fires and the updates of its         *)
(* schedule.                                                               *)
NextTarget ==
    \/ Handler
    \/ \E h \in Handlers, sid \in ScheduleIds : FireAccepted(h, sid)
    \/ \E h \in Handlers : HandlerCommitExpired(h)
    \/ \E h \in Handlers, out \in FinalOutcomes : HandlerHttp(h, out)
    \/ \E sid \in ScheduleIds, in \in CreateInputs : ApiCreate(sid, in)
    \/ \E sid \in ScheduleIds, in \in UpdateInputs : ApiUpdate(sid, in)
    \/ ApiDeleteTarget
    \/ ApiCommit
    \/ ApiCommitDeleteTarget
    \/ Start
    \/ TickSecond

SpecTarget == Init /\ [][NextTarget]_vars

(* The Store a process finds when it starts: a schedule that an earlier    *)
(* process created, and possibly a Run of it that the earlier process left *)
(* PENDING (inserted), RUNNING (marked by execute_run) or finished.        *)
LeftoverSchedule ==
    add_schedule(Obj(NewSchedule([schedule_type |-> "INTERVAL",
                                  interval_seconds |-> 1,
                                  cron_expression |-> NoCron,
                                  duration_seconds |-> Null,
                                  max_runs |-> Null]))).cur

LeftoverRuns ==
    LET pending == NewRun(0, 1, now_ist)
        marked == [pending EXCEPT !.status = "RUNNING", !.started_at = utcnow]
        done == AfterAttempt(marked, [NewAttempt(1) EXCEPT !.completed_at = utcnow,
                                                           !.latency_ms = 0,
                                                           !.status_code = 200])
    IN {<<>>, 0 :> pending, 0 :> marked, 0 :> done}

InitRestart ==
    /\ now = 0
    /\ started = FALSE
    /\ crashes = 0
    /\ jobs = {}
    /\ running = {}
    /\ sched = 1 :> LeftoverSchedule
    /\ runs \in LeftoverRuns
    /\ nextRun = 1
    /\ hs = [h \in Handlers |-> IdleHandler]
    /\ api = IdleApi
    /\ apiCalls = 0
    /\ sweep = IdleSweep
    /\ sweeps = 0
    /\ capChanged = {}
    /\ lateWindow = {}
    /\ deleted = {}
    /\ base_retry_delay \in BaseDelayChoices

(* The executor and the orphan sweep: the process starts on a Store left   *)
(* by an earlier one, the schedule fires once, and the target answers with *)
(* any error kind, so that the Run retries, backs off and exhausts; the    *)
(* clock advances tick by tick.                                            *)
NextExec ==
    \/ Handler
    \/ \E h \in Handlers, sid \in ScheduleIds : nextRun = 1 /\ FireAccepted(h, sid)
    \/ \E h \in Handlers, out \in Outcomes : HandlerHttp(h, out)
    \/ \E h \in Handlers : HandlerSleep(h)
    \/ Start
    \/ Tick

SpecExec == InitRestart /\ [][NextExec]_vars

(* Two schedules: the process starts on a Store that holds two ACTIVE      *)
(* interval schedules, each fires, and the target answers or fails so that *)
(* a Run ends at once or retries and sleeps; all within one tick of the    *)
(* clock.                                                                   *)
TwoScheduleIds == {1, 2}

TwoOutcomes == {Response(200), Response(500)}

InitTwo ==
    /\ now = 0
    /\ started = FALSE
    /\ crashes = 0
    /\ jobs = {}
    /\ running = {}
    /\ sched = [sid \in TwoScheduleIds |-> LeftoverSchedule]
    /\ runs = <<>>
    /\ nextRun = 1
    /\ hs = [h \in Handlers |-> IdleHandler]
    /\ api = IdleApi
    /\ apiCalls = 0
    /\ sweep = IdleSweep
    /\ sweeps = 0
    /\ capChanged = {}
    /\ lateWindow = {}
    /\ deleted = {}
    /\ base_retry_delay = retry_delay_seconds

(* The steps of the invocation in slot h (the schedules have no window    *)
(* and no cap: the expiry branch is not taken)                              *)
HandlerStep(h) ==
    \/ HandlerLoad(h)
    \/ HandlerDupCheck(h)
    \/ HandlerInsert(h)
    \/ HandlerFlushRunning(h)
    \/ \E out \in TwoOutcomes : HandlerHttp(h, out)
    \/ HandlerFlushAttempt(h)
    \/ HandlerSleep(h)
    \/ HandlerFlushFinal(h)
    \/ HandlerCommit(h)
    \/ HandlerClose(h)

NextTwo ==
    \/ \E h \in Handlers, sid \in TwoScheduleIds : FireAccepted(h, sid)
    \/ \E h \in Handlers, sid \in TwoScheduleIds : FireSkipped(h, sid)
    \/ \E h \in Handlers : HandlerStep(h)
    \/ Start

(* The event loop resumes a coroutine whose await has completed; no        *)
(* assumption is made on the handlers of schedule 1, which may stay         *)
(* suspended for ever.                                                      *)
SpecTwo ==
    /\ InitTwo
    /\ [][NextTwo]_vars
    /\ \A h \in Handlers : WF_vars(HandlerStep(h) /\ hs[h].sid = 2)

(* Recovery and the window sweeper with exceptions: the process starts on  *)
(* a leftover Store, and any step of recovery or of the sweeper's commit    *)
(* may raise; the schedule fires once and the clock advances.               *)
NextFaults ==
    \/ Handler
    \/ \E h \in Handlers, sid \in ScheduleIds : nextRun = 1 /\ FireAccepted(h, sid)
    \/ \E h \in Handlers, out \in FinalOutcomes : HandlerHttp(h, out)
    \/ Start
    \/ StartRaises
    \/ \E failed \in SUBSET ScheduleIds : StartReregisterRaises(failed)
    \/ SweepSelect
    \/ SweepCommit
    \/ SweepCommitRaises
    \/ Tick

SpecFaults == InitRestart /\ [][NextFaults]_vars

(* The executor under the event loop's scheduling: a coroutine whose       *)
(* awaited request (bounded by its timeout), flush or sleep has completed  *)
(* is resumed.                                                             *)
SpecExecLive ==
    /\ SpecExec
    /\ WF_vars(\E h \in Handlers, out \in Outcomes : HandlerHttp(h, out))
    /\ WF_vars(\E h \in Handlers : HandlerFlushAttempt(h))
    /\ WF_vars(\E h \in Handlers : HandlerSleep(h))

(* execute_run from its first statement: the flush of the RUNNING mark     *)
(* completes as well.                                                       *)
SpecRunLive ==
    /\ SpecExecLive
    /\ WF_vars(\E h \in Handlers : HandlerFlushRunning(h))

----------------------------------------------------------------------------
(* Properties *)

(* The Run objects: the committed rows, and the Run each live handler holds *)
DurableRuns == {runs[r] : r \in DOMAIN runs}

LiveRuns == {hs[h].run : h \in {g \in Handlers : hs[g].run.status # "NONE"}}

(* Live Runs whose INSERT was flushed *)
InsertedRuns == {r \in LiveRuns : r.id # 0}

RunsOf(sid) == {r \in DurableRuns \cup InsertedRuns : r.schedule_id = sid}

InFlight(sid) == {h \in Handlers : hs[h].pc # "idle" /\ hs[h].sid = sid}

SecondOf(t) == t \div TicksPerSecond

(* C1: for every schedule id at most one invocation of _execute_schedule   *)
(* is past the token check at any instant (and the token is held exactly   *)
(* while one is), so at most one Run of the schedule is PENDING or RUNNING *)
(* in a live handler.                                                      *)
C1_OneHandlerPerSchedule ==
    \A sid \in ScheduleIds :
        /\ Cardinality(InFlight(sid)) <= 1
        /\ InFlight(sid) # {} <=> sid \in running
        /\ Cardinality({h \in InFlight(sid) :
                            hs[h].run.status \in {"PENDING", "RUNNING"}}) <= 1

(* A handler is suspended at its HTTP request while the job of its         *)
(* schedule is registered and a slot is free: a second fire can arrive.    *)
C1_Witness ==
    \E h \in Handlers, g \in Handlers :
        /\ hs[h].pc = "http"
        /\ hs[h].sid \in jobs
        /\ started
        /\ FreeSlot(g)

(* C2: no two persisted Runs share an idempotency_key, and no two Runs of  *)
(* one schedule have their scheduled_at within the same wall-clock second. *)
C2_KeyUnique ==
    \A a, b \in DurableRuns \cup InsertedRuns :
        a.id # b.id =>
            /\ a.idempotency_key # b.idempotency_key
            /\ ~(/\ a.schedule_id = b.schedule_id
                 /\ SecondOf(a.scheduled_at) = SecondOf(b.scheduled_at))

(* A fire found the key of its second taken by a Run made at another tick  *)
(* of that second, and ended without a Run.                                *)
C2_Witness ==
    \E h \in Handlers, r \in DurableRuns :
        /\ hs[h].pc = "close"
        /\ hs[h].run.status = "PENDING"
        /\ hs[h].run.id = 0
        /\ hs[h].run.idempotency_key = r.idempotency_key
        /\ hs[h].run.scheduled_at # r.scheduled_at

CapFixed(sid) ==
    /\ sid \in DOMAIN sched
    /\ sid \notin capChanged
    /\ sched[sid].max_runs # Null

C3_Cap ==
    \A sid \in ScheduleIds :
        CapFixed(sid) =>
            /\ sched[sid].run_count <= sched[sid].max_runs
            /\ Cardinality(RunsOf(sid)) <= sched[sid].max_runs

C3_CapStep ==
    \A sid \in ScheduleIds :
        /\ (/\ CapFixed(sid)
            /\ sid \in DOMAIN sched'
            /\ sched[sid].run_count < sched[sid].max_runs
            /\ sched'[sid].run_count >= sched[sid].max_runs)
           => sched'[sid].status = "EXPIRED"
        /\ \A h \in Handlers :
            (/\ CapFixed(sid)
             /\ hs[h].sid = sid
             /\ hs[h].pc = "flush_final"
             /\ hs'[h].pc = "commit"
             /\ hs'[h].s.cur.run_count >= sched[sid].max_runs)
            => /\ hs'[h].s.cur.status = "EXPIRED"
               /\ sid \notin jobs'

(* C3: for a schedule whose max_runs = N is never changed, run_count <= N  *)
(* and at most N Runs exist in every state; the handler that counts the    *)
(* N-th run marks the schedule EXPIRED and removes its job in that step,   *)
(* and the commit that raises run_count to N stores status EXPIRED.        *)
C3_MaxRunsCap == []C3_Cap /\ [][C3_CapStep]_vars

(* A schedule with an unchanged cap has made its N runs and is EXPIRED     *)
(* with no job registered.                                                 *)
C3_Witness ==
    \E sid \in ScheduleIds :
        /\ CapFixed(sid)
        /\ sched[sid].run_count = sched[sid].max_runs
        /\ Cardinality(RunsOf(sid)) = sched[sid].max_runs
        /\ sched[sid].status = "EXPIRED"
        /\ sid \notin jobs
        /\ InFlight(sid) = {}

Rank(status) ==
    IF status = "PENDING" THEN 0 ELSE IF status = "RUNNING" THEN 1 ELSE 2

(* A status either stays or moves forward; a terminal status stays *)
Forward(a, b) == a = b \/ Rank(a) < Rank(b)

(* C4: every change of a Run's status, by the executor on the Run a        *)
(* handler holds or by start-up recovery on a committed row, moves forward *)
(* in PENDING < RUNNING < {SUCCESS, FAILED, TIMEOUT}: never from RUNNING   *)
(* back to PENDING, and never away from a terminal status.                 *)
C4_StatusMonotonic ==
    [][/\ \A r \in DOMAIN runs \cap DOMAIN runs' :
            Forward(runs[r].status, runs'[r].status)
       /\ \A h \in Handlers :
            (hs[h].run.status # "NONE" /\ hs'[h].run.status # "NONE")
                => Forward(hs[h].run.status, hs'[h].run.status)]_vars

(* Recovery has failed an orphaned Run, and the executor has taken another *)
(* Run through RUNNING to TIMEOUT.                                         *)
C4_Witness ==
    /\ \E r \in DurableRuns :
        /\ r.status = "FAILED"
        /\ r.final_error_message = "Server restarted while run was in progress"
    /\ \E r \in DurableRuns : r.status = "TIMEOUT" /\ r.attempt_count = max_retries

(* C5: in every state a Run has completed_at set if and only if its status *)
(* is SUCCESS, FAILED or TIMEOUT: the committed rows, those failed by the  *)
(* orphan sweep included, and the Run of every live handler.               *)
C5_CompletedIffTerminal ==
    \A r \in DurableRuns \cup LiveRuns :
        r.completed_at # Null <=> r.status \in TerminalRunStatus

(* An orphan failed by the sweep carries its completion time while a live  *)
(* Run with a recorded attempt is RUNNING without one.                     *)
C5_Witness ==
    /\ \E r \in DurableRuns :
        /\ r.final_error_message = "Server restarted while run was in progress"
        /\ r.completed_at # Null
    /\ \E r \in LiveRuns :
        r.status = "RUNNING" /\ r.attempt_count >= 1 /\ r.completed_at = Null

(* C6: for every terminal Run, completed_at >= started_at >= scheduled_at. *)
C6_TimesOrdered ==
    \A r \in DurableRuns \cup LiveRuns :
        r.status \in TerminalRunStatus =>
            /\ r.started_at # Null
            /\ r.completed_at >= r.started_at
            /\ r.started_at >= r.scheduled_at

(* C7: at every point of a Run's execution the attempt numbers of its      *)
(* recorded Attempts are 1..attempt_count in order, and the attempt in     *)
(* progress is numbered one past the attempts recorded.                    *)
C7_AttemptNumbers ==
    /\ \A r \in DurableRuns \cup LiveRuns :
        /\ Len(r.attempts) = r.attempt_count
        /\ \A i \in 1..Len(r.attempts) : r.attempts[i].attempt_number = i
    /\ \A h \in Handlers :
        hs[h].pc \in {"http", "flush_attempt"}
            => hs[h].att.attempt_number = Len(hs[h].run.attempts) + 1

(* Two attempts are recorded and the third is in progress. *)
C7_Witness ==
    \E h \in Handlers :
        /\ hs[h].pc = "http"
        /\ hs[h].run.attempt_count = 2
        /\ hs[h].att.attempt_number = 3

CommitsRun(h, sid) ==
    /\ hs[h].pc = "commit"
    /\ hs[h].sid = sid
    /\ hs'[h].pc = "close"

(* C8: the run_count of a schedule never decreases, whatever fires,        *)
(* pauses, resumes, updates, sweeps and restarts do; it changes only when  *)
(* a fire handler commits its run, and then by exactly 1.                  *)
C8_RunCountMonotone ==
    [][\A sid \in DOMAIN sched \cap DOMAIN sched' :
        /\ sched'[sid].run_count >= sched[sid].run_count
        /\ (\E h \in Handlers : CommitsRun(h, sid))
            => sched'[sid].run_count = sched[sid].run_count + 1
        /\ sched'[sid].run_count # sched[sid].run_count
            => \E h \in Handlers : CommitsRun(h, sid)]_vars

(* A schedule has counted two runs and was paused. *)
C8_Witness ==
    \E sid \in DOMAIN sched :
        sched[sid].run_count = 2 /\ sched[sid].status = "PAUSED"

(* C9: every step that takes a schedule row to EXPIRED leaves a row with   *)
(* run_count >= max_runs or with expires_at <= now.                        *)
C9_ExpiredOnlyWhenDue ==
    [][\A sid \in DOMAIN sched \cap DOMAIN sched' :
        (sched[sid].status # "EXPIRED" /\ sched'[sid].status = "EXPIRED")
            => \/ /\ sched'[sid].max_runs # Null
                  /\ sched'[sid].run_count >= sched'[sid].max_runs
               \/ /\ sched'[sid].expires_at # Null
                  /\ now_ist >= sched'[sid].expires_at]_vars

(* C10: once a schedule row is EXPIRED it stays EXPIRED, no Run is added   *)
(* for it and no job is registered for it.                                 *)
C10_ExpiredIsTerminal ==
    [][\A sid \in DOMAIN sched \cap DOMAIN sched' :
        sched[sid].status = "EXPIRED"
            => /\ sched'[sid].status = "EXPIRED"
               /\ RunsOf(sid)' \subseteq RunsOf(sid)
               /\ sid \in jobs' => sid \in jobs]_vars

SweptMessage == "Server restarted while run was in progress"

(* The Runs that execute_run finished *)
FinishedRuns ==
    {r \in DurableRuns \cup LiveRuns :
        /\ r.status \in TerminalRunStatus
        /\ r.final_error_message # SweptMessage
        /\ Len(r.attempts) >= 1}

LastAttempt(r) == r.attempts[Len(r.attempts)]

RetryableKinds == {"TIMEOUT", "DNS", "CONNECTION", "SSL", "SERVER_ERROR", "UNKNOWN"}

(* C13: an Attempt that ended CLIENT_ERROR is the last Attempt of its Run, *)
(* the Run is FAILED with attempt_count equal to that attempt's number,    *)
(* and no handler sleeps or sends a request after it.                      *)
C13_ClientErrorEndsRun ==
    /\ \A r \in DurableRuns \cup LiveRuns :
        \A i \in 1..Len(r.attempts) :
            r.attempts[i].error_type = "CLIENT_ERROR"
                => /\ i = Len(r.attempts)
                   /\ r.status = "FAILED"
                   /\ r.attempt_count = r.attempts[i].attempt_number
    /\ \A h \in Handlers :
        hs[h].pc \in {"sleep", "http"}
            => \A i \in 1..Len(hs[h].run.attempts) :
                    hs[h].run.attempts[i].error_type # "CLIENT_ERROR"

(* A Run failed at its second attempt with a 4xx after a retryable first   *)
(* attempt, and was committed.                                             *)
C13_Witness ==
    \E r \in DurableRuns :
        /\ r.status = "FAILED"
        /\ r.attempt_count = 2
        /\ r.attempts[1].error_type \in RetryableKinds
        /\ r.attempts[2].error_type = "CLIENT_ERROR"

(* C14: a Run finished by the executor is SUCCESS if and only if its last  *)
(* Attempt has kind NONE, and an Attempt of kind NONE is always the last   *)
(* Attempt of its Run.                                                     *)
C14_SuccessIffLastNone ==
    /\ \A r \in FinishedRuns :
        r.status = "SUCCESS" <=> LastAttempt(r).error_type = "NONE"
    /\ \A r \in DurableRuns \cup LiveRuns :
        \A i \in 1..Len(r.attempts) :
            r.attempts[i].error_type = "NONE" => i = Len(r.attempts)

(* A Run succeeded at its third attempt, after retryable failures, and was *)
(* committed.                                                              *)
C14_Witness ==
    \E r \in DurableRuns :
        /\ r.status = "SUCCESS"
        /\ r.attempt_count = max_retries
        /\ r.attempts[1].error_type \in RetryableKinds
        /\ LastAttempt(r).error_type = "NONE"

C15_Bounded ==
    /\ \A r \in DurableRuns \cup LiveRuns : Len(r.attempts) <= max_retries
    /\ \A h \in Handlers : hs[h].att.attempt_number <= max_retries

RetryDue(h, n) ==
    /\ hs[h].pc = "flush_attempt"
    /\ hs[h].att.error_type \in RetryableKinds
    /\ hs[h].att.attempt_number = n
    /\ n < max_retries

RetryRecorded(h, n) ==
    /\ hs[h].run.status # "NONE"
    /\ Len(hs[h].run.attempts) = n + 1

C15_RetryStep ==
    \A h \in Handlers :
        /\ (hs'[h] # hs[h] /\ \E n \in 1..max_retries : RetryDue(h, n))
            => /\ hs'[h].pc = "sleep"
               /\ hs'[h].run.status = "RUNNING"
        /\ (hs'[h] # hs[h] /\ hs[h].pc = "sleep")
            => /\ hs'[h].pc = "http"
               /\ hs'[h].att.attempt_number = hs[h].att.attempt_number + 1

(* C15: a Run never has more than max_retries Attempts; after an Attempt   *)
(* numbered n < max_retries that ended with a retryable kind the handler   *)
(* sleeps and then sends Attempt n + 1, and under the event loop's         *)
(* scheduling that Attempt is always recorded.                             *)
C15_RetriesUntilExhausted ==
    /\ []C15_Bounded
    /\ [][C15_RetryStep]_vars
    /\ \A h \in Handlers, n \in 1..max_retries :
        RetryDue(h, n) ~> RetryRecorded(h, n)

(* The second attempt ended with a retryable kind and the third is sent. *)
C15_Witness ==
    \E h \in Handlers :
        /\ hs[h].pc = "http"
        /\ hs[h].att.attempt_number = 3
        /\ hs[h].run.attempts[2].error_type \in RetryableKinds

(* C16: a Run whose max_retries Attempts all ended with retryable kinds is *)
(* TIMEOUT if the last Attempt's kind is TIMEOUT and FAILED otherwise,     *)
(* whatever the kinds of its earlier Attempts.                             *)
C16_ExhaustedStatus ==
    \A r \in FinishedRuns :
        (Len(r.attempts) = max_retries /\ LastAttempt(r).error_type \in RetryableKinds)
            => r.status = IF LastAttempt(r).error_type = "TIMEOUT"
                          THEN "TIMEOUT" ELSE "FAILED"

(* A committed Run whose first attempt timed out and whose last attempt    *)
(* ended with another retryable kind is FAILED.                            *)
C16_Witness ==
    \E r \in DurableRuns :
        /\ Len(r.attempts) = max_retries
        /\ r.attempts[1].error_type = "TIMEOUT"
        /\ LastAttempt(r).error_type \in RetryableKinds \ {"TIMEOUT"}
        /\ r.status = "FAILED"

(* C17: for every Run finished by the executor, final_status_code,         *)
(* final_error_type and final_error_message are the status_code,           *)
(* error_type and error_message of its last Attempt.                       *)
C17_FinalFromLastAttempt ==
    \A r \in FinishedRuns :
        /\ r.final_status_code = LastAttempt(r).status_code
        /\ r.final_error_type = LastAttempt(r).error_type
        /\ r.final_error_message = LastAttempt(r).error_message

(* A Run exhausted its retries on a 503 after an attempt that raised. *)
C17_Witness ==
    \E r \in DurableRuns :
        /\ Len(r.attempts) = max_retries
        /\ r.attempts[1].status_code = Null
        /\ r.final_status_code = 503
        /\ r.final_error_message = "HTTP 503"

(* C12: every stored schedule has exactly the cadence field of its kind:   *)
(* INTERVAL has interval_seconds >= 1 and no cron_expression, CRON has a    *)
(* cron_expression and no interval_seconds.                                 *)
C12_OneCadenceField ==
    \A sid \in DOMAIN sched :
        /\ sched[sid].schedule_type = "INTERVAL"
               => /\ sched[sid].interval_seconds # Null
                  /\ sched[sid].interval_seconds >= 1
                  /\ sched[sid].cron_expression = NoCron
        /\ sched[sid].schedule_type = "CRON"
               => /\ sched[sid].cron_expression # NoCron
                  /\ sched[sid].interval_seconds = Null

(* C11: every schedule row with duration_seconds set has                   *)
(* expires_at = started_at + duration_seconds.                             *)
C11_ExpiresFromDuration ==
    \A sid \in DOMAIN sched :
        sched[sid].duration_seconds # Null
            => /\ sched[sid].started_at # Null
               /\ sched[sid].expires_at # Null
               /\ sched[sid].expires_at =
                    sched[sid].started_at + Seconds(sched[sid].duration_seconds)

(* The API can take a request now *)
CanRequest == started /\ api.pc = "idle" /\ apiCalls < MaxApiCalls

(* C18: a paused schedule that is not expired by window or max_runs, with  *)
(* or without a duration window, is resumed successfully: the request      *)
(* makes it ACTIVE with next_run_at set and its trigger registered.        *)
C18_ResumeActivates ==
    \A sid \in DOMAIN sched :
        /\ CanRequest
        /\ sched[sid].status = "PAUSED"
        /\ ~WindowExpired(sched[sid])
        /\ ~MaxRunsReached(sched[sid])
        => ENABLED /\ ApiResume(sid)
                   /\ api'.pc = "commit"
                   /\ api'.s.cur.status = "ACTIVE"
                   /\ api'.s.cur.next_run_at # Null
                   /\ sid \in jobs'

(* C19: a resume request on a PAUSED schedule whose window has passed or   *)
(* whose run_count has reached max_runs marks it EXPIRED, registers no     *)
(* trigger and leaves next_run_at as it was.                               *)
C19_ResumeExpires ==
    \A sid \in DOMAIN sched :
        /\ CanRequest
        /\ sched[sid].status = "PAUSED"
        /\ WindowExpired(sched[sid]) \/ MaxRunsReached(sched[sid])
        => ENABLED /\ ApiResume(sid)
                   /\ api'.pc = "commit"
                   /\ api'.s.cur.status = "EXPIRED"
                   /\ api'.s.cur.next_run_at = sched[sid].next_run_at
                   /\ jobs' = jobs

(* C20: a pause request on a schedule that is not ACTIVE, and a resume     *)
(* request on a schedule that is not PAUSED, is rejected: no such request  *)
(* changes anything, so status, next_run_at and the trigger registration   *)
(* stay as they are.                                                       *)
C20_WrongStatusRejected ==
    \A sid \in DOMAIN sched :
        /\ sched[sid].status # "ACTIVE" => ~ENABLED <<ApiPause(sid)>>_vars
        /\ sched[sid].status # "PAUSED" => ~ENABLED <<ApiResume(sid)>>_vars

(* Witness: the API can take a request while the schedule is EXPIRED, the  *)
(* status in which both a pause and a resume request are refused, and      *)
(* two earlier requests were accepted.                                     *)
C20_Witness ==
    /\ CanRequest
    /\ apiCalls >= 2
    /\ \E sid \in DOMAIN sched : sched[sid].status = "EXPIRED"

(* The step in which start-up recovery runs *)
Recovers == ~started /\ started'

(* C21: start-up recovery leaves no Run PENDING or RUNNING: a Run that was *)
(* PENDING or RUNNING is FAILED with completed_at set and the restart      *)
(* message, and a Run that was terminal is unchanged.                      *)
C21_OrphansFailed ==
    [][Recovers =>
          /\ DOMAIN runs' = DOMAIN runs
          /\ \A r \in DOMAIN runs :
                /\ runs'[r].status \notin {"PENDING", "RUNNING"}
                /\ IF runs[r].status \in {"PENDING", "RUNNING"}
                   THEN /\ runs'[r].status = "FAILED"
                        /\ runs'[r].completed_at # Null
                        /\ runs'[r].final_error_message = SweptMessage
                   ELSE runs'[r] = runs[r]]_vars

(* Witness: recovery has just run on a Store with a Run that was left      *)
(* PENDING (never started) and failed it.                                  *)
C21_Witness ==
    /\ started
    /\ \A h \in Handlers : hs[h].pc = "idle"
    /\ \E r \in DurableRuns :
        /\ r.status = "FAILED"
        /\ r.started_at = Null
        /\ r.final_error_message = SweptMessage

(* The schedule is past expires_at or at max_runs *)
Due(s) ==
    \/ s.expires_at # Null /\ now_ist >= s.expires_at
    \/ s.max_runs # Null /\ s.run_count >= s.max_runs

(* C22: start-up recovery registers a trigger for exactly the schedules    *)
(* that were ACTIVE and not due; an ACTIVE schedule that is due becomes     *)
(* EXPIRED without a trigger; PAUSED and EXPIRED schedules are unchanged    *)
(* and have no trigger.                                                     *)
C22_RecoveredTriggers ==
    [][Recovers =>
          /\ DOMAIN sched' = DOMAIN sched
          /\ jobs' = {sid \in DOMAIN sched :
                         sched[sid].status = "ACTIVE" /\ ~Due(sched[sid])}
          /\ \A sid \in DOMAIN sched :
                IF sched[sid].status = "ACTIVE" /\ Due(sched[sid])
                THEN sched'[sid] = [sched[sid] EXCEPT !.status = "EXPIRED"]
                ELSE sched'[sid] = sched[sid]]_vars

(* Witness: after a crash the process has started again and holds no       *)
(* trigger for a schedule that is EXPIRED at its cap, although no fire and  *)
(* no request is under way.                                                 *)
C22_Witness ==
    /\ started
    /\ crashes >= 1
    /\ api.pc = "idle"
    /\ \A h \in Handlers : hs[h].pc = "idle"
    /\ \E sid \in DOMAIN sched :
        /\ sched[sid].status = "EXPIRED"
        /\ sched[sid].max_runs # Null
        /\ sched[sid].run_count >= sched[sid].max_runs
        /\ sid \notin jobs

(* The step in which the sweeper's SELECT returns, and the one in which it *)
(* commits                                                                 *)
SweepSelects == sweep.pc = "idle" /\ sweep'.pc = "commit"

SweepCommits == sweep.pc = "commit" /\ sweep'.pc = "idle" /\ started'

(* Each run of the window sweeper deregisters and sets to EXPIRED every     *)
(* schedule that is ACTIVE with expires_at <= now, and changes no other.    *)
C23_SweepRun ==
    /\ [][SweepSelects =>
             /\ sweep'.sel = {sid \in DOMAIN sched :
                                 /\ sched[sid].status = "ACTIVE"
                                 /\ sched[sid].expires_at # Null
                                 /\ sched[sid].expires_at <= now_ist}
             /\ jobs' = jobs \ sweep'.sel
             /\ sched' = sched]_vars
    /\ [][SweepCommits =>
             /\ jobs' = jobs
             /\ \A sid \in DOMAIN sched :
                   sched'[sid] = IF sid \in sweep.sel
                                 THEN [sched[sid] EXCEPT !.status = "EXPIRED"]
                                 ELSE sched[sid]]_vars

(* The schedule is ACTIVE more than one sweep period after its expires_at  *)
(* while the process runs.                                                 *)
Overdue(sid) ==
    /\ started
    /\ sched[sid].status = "ACTIVE"
    /\ sched[sid].expires_at # Null
    /\ now_ist > sched[sid].expires_at + Seconds(SweepPeriodSeconds)

Crashes == started /\ ~started'

(* C24: the Store is committed after each operation of a fire, so a crash   *)
(* after a Run was registered leaves the Run, with the Attempts recorded so *)
(* far, in the Store (for the next start-up's orphan sweep to fail).        *)
C24_CrashKeepsRun ==
    [][Crashes =>
          \A r \in InsertedRuns :
              \E d \in DOMAIN runs' :
                  /\ runs'[d].id = r.id
                  /\ Len(runs'[d].attempts) >= Len(r.attempts)]_vars

(* C25: once a delete request is committed, the schedule has no trigger,   *)
(* its row is gone, and no Run (with its Attempts) of that schedule id is   *)
(* in the Store, in that state and in every later one, also when a fire of  *)
(* the schedule was under way at the deletion.                              *)
C25_DeletedLeavesNothing ==
    \A sid \in deleted :
        /\ sid \notin jobs
        /\ sid \notin DOMAIN sched
        /\ \A r \in DurableRuns : r.schedule_id # sid

(* C26: once the delete of the target is committed, the target is gone (a  *)
(* fetch is not-found), none of its schedules, Runs and Attempts is in the *)
(* Store and no trigger is registered for any of its schedules, whatever   *)
(* their status was.                                                       *)
C26_TargetDeletedLeavesNothing ==
    TargetId \in deleted =>
        /\ DOMAIN sched = {}
        /\ DurableRuns = {}
        /\ jobs = {}

(* min(base_delay * 2^(n - 1), 30 s) *)
ExpectedBackoff(n) ==
    LET d == base_retry_delay * (2 ^ (n - 1)) IN
    IF d <= 30 THEN d ELSE 30

C28_ExceptionsContained ==
    [][(started => started') /\ crashes' = crashes]_vars

(* C29: a fire whose idempotency key is already held by a Run, found by    *)
(* the lookup or by the unique index at the INSERT, goes straight to its    *)
(* end: no Run is added, no attempt is made, the schedule row stays as it   *)
(* is, and the handler ends by releasing the token with the process up.     *)
C29_DuplicateKeySkipped ==
    [][\A h \in Handlers :
          /\ (/\ hs[h].pc \in {"dupcheck", "insert"}
              /\ \E r \in DOMAIN runs :
                     runs[r].idempotency_key = hs[h].run.idempotency_key
              /\ hs'[h] # hs[h])
                 => /\ hs'[h].pc = "close"
                    /\ hs'[h].run.attempts = <<>>
                    /\ hs'[h].s = hs[h].s
                    /\ runs' = runs
                    /\ nextRun' = nextRun
                    /\ sched' = sched
                    /\ started'
          /\ (hs[h].pc = "close" /\ hs'[h] # hs[h])
                 => /\ hs'[h] = IdleHandler
                    /\ hs[h].sid \notin running'
                    /\ runs' = runs
                    /\ sched' = sched
                    /\ started']_vars

C29_Witness ==
    \E h \in Handlers :
        /\ hs[h].pc = "close"
        /\ hs[h].run.status = "PENDING"
        /\ hs[h].run.attempts = <<>>
        /\ hs[h].sid \in running
        /\ hs[h].sid \in DOMAIN sched
        /\ \E r \in DOMAIN runs :
               /\ runs[r].idempotency_key = hs[h].run.idempotency_key
               /\ runs[r].schedule_id = hs[h].sid

(* C30: every Attempt with started_at and completed_at both set, whether   *)
(* it got a response or ended by an exception, has latency_ms set to        *)
(* completed_at - started_at (in milliseconds).                             *)
AttemptsSeen ==
    UNION {{runs[r].attempts[i] : i \in DOMAIN runs[r].attempts} : r \in DOMAIN runs}
    \cup {hs[h].att : h \in {g \in Handlers : hs[g].pc = "flush_attempt"}}

C30_LatencyRecorded ==
    \A a \in AttemptsSeen :
        (a.started_at # Null /\ a.completed_at # Null)
            => /\ a.latency_ms # Null
               /\ a.latency_ms = LatencyMs(a.started_at, a.completed_at)

(* C31: the next_run_at stored for an ACTIVE INTERVAL schedule with a       *)
(* registered trigger is an instant at which the trigger fires:             *)
(* registration + k * interval, however long the run took.                  *)
C31_NextRunIsTriggerFire ==
    \A sid \in DOMAIN sched :
        (/\ sid \in jobs
         /\ sched[sid].status = "ACTIVE"
         /\ sched[sid].schedule_type = "INTERVAL"
         /\ sched[sid].next_run_at # Null)
            => /\ sched[sid].next_run_at > sched[sid].started_at
               /\ (sched[sid].next_run_at - sched[sid].started_at)
                      % Seconds(sched[sid].interval_seconds) = 0

(* C32: the token of a schedule is held only while a handler for it is in  *)
(* flight, and a handler that ends, on whatever path, leaves the token      *)
(* released.                                                                *)
C32_TokenReleased ==
    /\ [](\A sid \in running : InFlight(sid) # {})
    /\ [][\A h \in Handlers :
             (hs[h].pc # "idle" /\ hs'[h].pc = "idle")
                 => hs[h].sid \notin running']_vars

C32_Witness ==
    /\ crashes = 0
    /\ running = {}
    /\ \A h \in Handlers : hs[h].pc = "idle"
    /\ \E r \in DOMAIN runs : runs[r].status \in {"SUCCESS", "FAILED"}
    /\ \E sid \in DOMAIN sched : sched[sid].run_count > 0 /\ sid \in jobs

(* C33: a fire that comes due while a handler of the same schedule is in   *)
(* flight starts no handler and changes nothing (no Run, no schedule field, *)
(* the token stays held), and nothing is left to run when the handler in    *)
(* flight ends: no handler of the schedule is in flight after it.           *)
C33_FireSkippedNotQueued ==
    /\ [](\A sid \in running, h \in Handlers :
            (started /\ sid \in jobs /\ FreeSlot(h))
                => /\ ~ENABLED <<FireAccepted(h, sid)>>_vars
                   /\ ENABLED FireSkipped(h, sid)
                   /\ ~ENABLED <<FireSkipped(h, sid)>>_vars)
    /\ [][\A h \in Handlers :
             (hs[h].pc = "close" /\ hs'[h].pc = "idle")
                 => \A g \in Handlers :
                        hs'[g].pc = "idle" \/ hs'[g].sid # hs[h].sid]_vars

C33_Witness ==
    \E sid \in running, h, g \in Handlers :
        /\ started
        /\ sid \in jobs
        /\ FreeSlot(h)
        /\ hs[g].pc = "http"
        /\ hs[g].sid = sid
        /\ ENABLED FireSkipped(h, sid)

(* C34: while a handler of one schedule is in flight, suspended at any of  *)
(* its awaits, a due fire of another schedule takes its token, every step   *)
(* of its handler can be taken, and the handler goes on to commit its Run   *)
(* and ends.                                                                *)
C34_SchedulesConcurrent ==
    /\ [](\A a, b \in DOMAIN sched :
            (/\ a # b
             /\ InFlight(a) # {}
             /\ started
             /\ b \in jobs
             /\ b \notin running
             /\ nextRun <= MaxRuns)
                => \E h \in Handlers : ENABLED <<FireAccepted(h, b)>>_vars)
    /\ [](\A h \in Handlers : hs[h].pc # "idle" => ENABLED <<HandlerStep(h)>>_vars)
    /\ ((\E h \in Handlers : hs[h].pc = "load" /\ hs[h].sid = 2)
            ~> (/\ \E r \in DOMAIN runs : runs[r].schedule_id = 2
                /\ 2 \notin running))

C34_Witness ==
    \E g \in Handlers, r \in DOMAIN runs :
        /\ hs[g].sid = 1
        /\ hs[g].pc \in {"http", "sleep", "flush_attempt"}
        /\ runs[r].schedule_id = 2
        /\ hs[g].run.id < runs[r].id

(* execute_run has returned its Run *)
C35_Returned(h) ==
    /\ hs[h].pc \in {"flush_final", "commit"}
    /\ hs[h].run.status \in {"SUCCESS", "FAILED", "TIMEOUT"}
    /\ hs[h].run.completed_at # Null
    /\ Len(hs[h].run.attempts) \in 1 .. max_retries

(* C35: execute_run, entered with a PENDING Run, always reaches its final  *)
(* flush; it has then made at most max_retries attempts, it sleeps only     *)
(* after an attempt numbered below max_retries (at most max_retries - 1     *)
(* sleeps), and the Run it returns is SUCCESS, FAILED or TIMEOUT.           *)
C35_ExecuteRunTerminates ==
    /\ [](\A h \in Handlers :
            /\ hs[h].pc \in {"flush_final", "commit"} => C35_Returned(h)
            /\ hs[h].pc = "sleep"
                   => /\ Len(hs[h].run.attempts) = hs[h].att.attempt_number
                      /\ hs[h].att.attempt_number <= max_retries - 1
            /\ hs[h].pc \in {"http", "flush_attempt"}
                   => /\ hs[h].att.attempt_number = Len(hs[h].run.attempts) + 1
                      /\ hs[h].att.attempt_number <= max_retries)
    /\ \A h \in Handlers :
           (hs[h].pc = "flush_running" /\ hs[h].run.status = "RUNNING")
               ~> C35_Returned(h)

C35_Witness ==
    \E h \in Handlers :
        /\ C35_Returned(h)
        /\ hs[h].run.status = "TIMEOUT"
        /\ Len(hs[h].run.attempts) = max_retries

(* C36: a committed schedule with status PAUSED has no next_run_at, also   *)
(* when it was paused while a Run of it was in flight.                      *)
C36_PausedHasNoNextRun ==
    \A sid \in DOMAIN sched :
        sched[sid].status = "PAUSED" => sched[sid].next_run_at = Null

(* C37: every registered job belongs to a schedule that is in the Store    *)
(* with status ACTIVE.                                                      *)
C37_JobsOnlyForActive ==
    \A sid \in jobs : sid \in DOMAIN sched /\ sched[sid].status = "ACTIVE"

C39_FinalErrorTypeMatchesStatus ==
    \A r \in DOMAIN runs :
        /\ runs[r].status \in {"FAILED", "TIMEOUT"} => runs[r].final_error_type # "NONE"
        /\ runs[r].status = "SUCCESS" => runs[r].final_error_type = "NONE"

(* C40: no handler inserts a Run, or sends an HTTP attempt, for a schedule  *)
(* whose committed status is PAUSED.                                        *)
C40_NoRunWhilePaused ==
    [][\A h \in Handlers :
          (/\ hs[h].sid \in DOMAIN sched
           /\ sched[hs[h].sid].status = "PAUSED"
           /\ hs'[h] # hs[h])
              => /\ ~(hs[h].pc = "insert" /\ hs'[h].pc = "flush_running")
                 /\ ~(hs[h].pc = "flush_running" /\ hs'[h].pc = "http")]_vars

====
